---- MODULE Spec2Model ----
(***************************************************************************)
(* Model of PaxHistoriaAIHook.user.js: the hooked fetch (interception,     *)
(* credential check, classification, provider dispatch through withRetry,  *)
(* response reshaping, fallback), the retry policy, the schema normalizer  *)
(* and the JSON conversions they rest on.                                  *)
(*                                                                         *)
(* Text is a sequence of tokens.  A token is one character, except that a  *)
(* run of letters that no operation looks inside (an object key, a fixed   *)
(* marker value such as "chatWithUser") may be written as one token.       *)
(* Everything the code inspects character by character (fences, braces,    *)
(* whitespace, quotes, escapes, digits, the literals null/true/false, the  *)
(* keywords of isRetryableError) is held one character per token.          *)
(***************************************************************************)
EXTENDS Integers, Sequences, FiniteSets, TLC

(***************************************************************************)
(* JavaScript values as JSON.parse produces them, plus undefined.          *)
(* An object is its list of <<key, value>> pairs in insertion order.       *)
(***************************************************************************)
Undefined == [t |-> "undefined"]
JNull == [t |-> "null"]
JBool(b) == [t |-> "bool", b |-> b]
JNum(n) == [t |-> "num", n |-> n]
JStr(s) == [t |-> "str", s |-> s]
JArr(es) == [t |-> "arr", es |-> es]
JObj(kv) == [t |-> "obj", kv |-> kv]

IsObj(v) == v.t = "obj"
IsArr(v) == v.t = "arr"
IsStr(v) == v.t = "str"

\* the characters the conversions single out
QUOTE == "\""
BSLASH == "\\"
\* the grave accent (SANY has no string literal for it)
BACKTICK == "<grave>"
Whitespace == {" ", "\n", "\t", "\r"}
Digits == <<"0", "1", "2", "3", "4", "5", "6", "7", "8", "9">>
DigitSet == {Digits[i] : i \in 1..10}
DigitVal(c) == (CHOOSE i \in 1..10 : Digits[i] = c) - 1

RECURSIVE Concat(_)
Concat(ss) == IF ss = <<>> THEN <<>> ELSE Head(ss) \o Concat(Tail(ss))

\* v.k / v[k] on a parsed value: the entry of an object, undefined elsewhere
\* (arrays and strings are only ever read at index 0 here, see ObjectKeys)
HasKey(v, k) == IsObj(v) /\ \E i \in 1..Len(v.kv) : v.kv[i][1] = k
Get(v, k) ==
    IF HasKey(v, k)
    THEN v.kv[CHOOSE i \in 1..Len(v.kv) : v.kv[i][1] = k][2]
    ELSE Undefined

\* JavaScript truthiness
Truthy(v) ==
    CASE v.t = "undefined" -> FALSE
      [] v.t = "null" -> FALSE
      [] v.t = "bool" -> v.b
      [] v.t = "num" -> v.n # 0
      [] v.t = "str" -> v.s # <<>>
      [] OTHER -> TRUE

\* typeof v === "object"
TypeofObject(v) == v.t \in {"obj", "arr", "null"}

(***************************************************************************)
(* JSON.stringify on parsed values.                                        *)
(***************************************************************************)
RECURSIVE NatToText(_)
NatToText(n) ==
    IF n < 10 THEN <<Digits[n + 1]>>
    ELSE NatToText(n \div 10) \o <<Digits[(n % 10) + 1]>>

EscapeToken(c) ==
    CASE c = QUOTE -> <<BSLASH, QUOTE>>
      [] c = BSLASH -> <<BSLASH, BSLASH>>
      [] c = "\n" -> <<BSLASH, "n">>
      [] c = "\t" -> <<BSLASH, "t">>
      [] c = "\r" -> <<BSLASH, "r">>
      [] OTHER -> <<c>>

QuoteText(s) ==
    <<QUOTE>> \o Concat([i \in 1..Len(s) |-> EscapeToken(s[i])]) \o <<QUOTE>>

RECURSIVE Stringify(_)
Stringify(v) ==
    CASE v.t = "null" -> <<"n", "u", "l", "l">>
      [] v.t = "bool" ->
            IF v.b THEN <<"t", "r", "u", "e">> ELSE <<"f", "a", "l", "s", "e">>
      [] v.t = "num" -> NatToText(v.n)
      [] v.t = "str" -> QuoteText(v.s)
      [] v.t = "arr" ->
            <<"[">>
            \o Concat([i \in 1..Len(v.es) |->
                  (IF i > 1 THEN <<",">> ELSE <<>>) \o Stringify(v.es[i])])
            \o <<"]">>
      [] v.t = "obj" ->
            <<"{">>
            \o Concat([i \in 1..Len(v.kv) |->
                  (IF i > 1 THEN <<",">> ELSE <<>>)
                  \o QuoteText(v.kv[i][1]) \o <<":">> \o Stringify(v.kv[i][2])])
            \o <<"}">>

(***************************************************************************)
(* JSON.parse.  A result is [ok |-> FALSE] (a SyntaxError is thrown) or    *)
(* [ok |-> TRUE, v |-> value].  Numbers are the non-negative integers; the *)
(* texts the model feeds it hold no sign, fraction or exponent, and no     *)
(* \b, \f or \u escape.                                                    *)
(***************************************************************************)
\* a step that throws, and one that returns v
Threw == [ok |-> FALSE]
Returned(v) == [ok |-> TRUE, v |-> v]
Ok(v, i) == [ok |-> TRUE, v |-> v, i |-> i]

RECURSIVE SkipWs(_, _)
SkipWs(s, i) ==
    IF i <= Len(s) /\ s[i] \in Whitespace THEN SkipWs(s, i + 1) ELSE i

Match(s, i, lit) ==
    /\ i + Len(lit) - 1 <= Len(s)
    /\ SubSeq(s, i, i + Len(lit) - 1) = lit

\* the body of a string literal, from the token after its opening quote
RECURSIVE ScanString(_, _, _)
ScanString(s, j, acc) ==
    IF j > Len(s) THEN Threw
    ELSE IF s[j] = QUOTE THEN Ok(acc, j + 1)
    ELSE IF s[j] = BSLASH THEN
        IF j + 1 > Len(s) THEN Threw
        ELSE CASE s[j + 1] = QUOTE -> ScanString(s, j + 2, Append(acc, QUOTE))
               [] s[j + 1] = BSLASH -> ScanString(s, j + 2, Append(acc, BSLASH))
               [] s[j + 1] = "/" -> ScanString(s, j + 2, Append(acc, "/"))
               [] s[j + 1] = "n" -> ScanString(s, j + 2, Append(acc, "\n"))
               [] s[j + 1] = "t" -> ScanString(s, j + 2, Append(acc, "\t"))
               [] s[j + 1] = "r" -> ScanString(s, j + 2, Append(acc, "\r"))
               [] OTHER -> Threw
    ELSE IF s[j] \in {"\n", "\t", "\r"} THEN Threw
    ELSE ScanString(s, j + 1, Append(acc, s[j]))

RECURSIVE ScanDigits(_, _, _)
ScanDigits(s, j, n) ==
    IF j <= Len(s) /\ s[j] \in DigitSet
    THEN ScanDigits(s, j + 1, 10 * n + DigitVal(s[j]))
    ELSE Ok(JNum(n), j)

\* a repeated key keeps its first place and takes the last value
SetKey(kv, k, v) ==
    IF \E i \in 1..Len(kv) : kv[i][1] = k
    THEN [i \in 1..Len(kv) |-> IF kv[i][1] = k THEN <<k, v>> ELSE kv[i]]
    ELSE Append(kv, <<k, v>>)

RECURSIVE ParseValue(_, _)
RECURSIVE ParseMembers(_, _, _)
RECURSIVE ParseElements(_, _, _)
ParseValue(s, i0) ==
    LET Object(j) ==
            IF j <= Len(s) /\ s[j] = "}" THEN Ok(JObj(<<>>), j + 1)
            ELSE ParseMembers(s, j, <<>>)
        List(j) ==
            IF j <= Len(s) /\ s[j] = "]" THEN Ok(JArr(<<>>), j + 1)
            ELSE ParseElements(s, j, <<>>)
        Text(r) == IF r.ok THEN Ok(JStr(r.v), r.i) ELSE Threw
        At(i) ==
            IF i > Len(s) THEN Threw
            ELSE CASE s[i] = "{" -> Object(SkipWs(s, i + 1))
                   [] s[i] = "[" -> List(SkipWs(s, i + 1))
                   [] s[i] = QUOTE -> Text(ScanString(s, i + 1, <<>>))
                   [] s[i] = "0" -> Ok(JNum(0), i + 1)
                   [] s[i] \in DigitSet \ {"0"} -> ScanDigits(s, i, 0)
                   [] Match(s, i, <<"n", "u", "l", "l">>) -> Ok(JNull, i + 4)
                   [] Match(s, i, <<"t", "r", "u", "e">>) -> Ok(JBool(TRUE), i + 4)
                   [] Match(s, i, <<"f", "a", "l", "s", "e">>) ->
                        Ok(JBool(FALSE), i + 5)
                   [] OTHER -> Threw
    IN At(SkipWs(s, i0))

\* "key" : value, then "}" or "," and the next member
ParseMembers(s, i, kv) ==
    LET After(kv2, d) ==
            IF d > Len(s) THEN Threw
            ELSE IF s[d] = "}" THEN Ok(JObj(kv2), d + 1)
            ELSE IF s[d] = "," THEN ParseMembers(s, d + 1, kv2)
            ELSE Threw
        Value(k, v) ==
            IF ~v.ok THEN Threw
            ELSE After(SetKey(kv, k.v, v.v), SkipWs(s, v.i))
        Colon(k, c) ==
            IF c > Len(s) \/ s[c] # ":" THEN Threw
            ELSE Value(k, ParseValue(s, c + 1))
        Key(k) == IF ~k.ok THEN Threw ELSE Colon(k, SkipWs(s, k.i))
        Start(i1) ==
            IF i1 > Len(s) \/ s[i1] # QUOTE THEN Threw
            ELSE Key(ScanString(s, i1 + 1, <<>>))
    IN Start(SkipWs(s, i))

\* value, then "]" or "," and the next element
ParseElements(s, i, es) ==
    LET After(es2, d) ==
            IF d > Len(s) THEN Threw
            ELSE IF s[d] = "]" THEN Ok(JArr(es2), d + 1)
            ELSE IF s[d] = "," THEN ParseElements(s, d + 1, es2)
            ELSE Threw
        Value(v) ==
            IF ~v.ok THEN Threw ELSE After(Append(es, v.v), SkipWs(s, v.i))
    IN Value(ParseValue(s, i))

\* the whole text is one value
Parse(s) ==
    LET Whole(r) ==
            IF r.ok /\ SkipWs(s, r.i) = Len(s) + 1
            THEN Returned(r.v)
            ELSE Threw
    IN Whole(ParseValue(s, 1))

(***************************************************************************)
(* String methods used by the hook (positions are 0-based, -1 = absent).   *)
(***************************************************************************)
UpperCase == <<"A", "B", "C", "D", "E", "F", "G", "H", "I", "J", "K", "L", "M",
               "N", "O", "P", "Q", "R", "S", "T", "U", "V", "W", "X", "Y", "Z">>
LowerCase == <<"a", "b", "c", "d", "e", "f", "g", "h", "i", "j", "k", "l", "m",
               "n", "o", "p", "q", "r", "s", "t", "u", "v", "w", "x", "y", "z">>
ToLowerToken(c) ==
    IF \E i \in 1..Len(UpperCase) : UpperCase[i] = c
    THEN LowerCase[CHOOSE i \in 1..Len(UpperCase) : UpperCase[i] = c]
    ELSE c
ToLowerCase(s) == [i \in 1..Len(s) |-> ToLowerToken(s[i])]

\* s.includes(sub)
Includes(s, sub) ==
    \E i \in 1..(Len(s) - Len(sub) + 1) : SubSeq(s, i, i + Len(sub) - 1) = sub

\* s.indexOf(c) and s.lastIndexOf(c) for a one-character c
IndexOf(s, c) ==
    IF \E i \in 1..Len(s) : s[i] = c
    THEN (CHOOSE i \in 1..Len(s) : s[i] = c /\ \A j \in 1..(i - 1) : s[j] # c) - 1
    ELSE -1
LastIndexOf(s, c) ==
    IF \E i \in 1..Len(s) : s[i] = c
    THEN (CHOOSE i \in 1..Len(s) : s[i] = c /\ \A j \in (i + 1)..Len(s) : s[j] # c) - 1
    ELSE -1

\* s.substring(a, b): both ends clamped to 0..length, swapped when a > b
Substring(s, a, b) ==
    LET x == IF a < 0 THEN 0 ELSE IF a > Len(s) THEN Len(s) ELSE a
        y == IF b < 0 THEN 0 ELSE IF b > Len(s) THEN Len(s) ELSE b
        lo == IF x <= y THEN x ELSE y
        hi == IF x <= y THEN y ELSE x
    IN SubSeq(s, lo + 1, hi)

\* s.replace(/pat/g, "") and, with ci, s.replace(/pat/gi, ""): one pass from
\* the left over non-overlapping matches
RECURSIVE RemoveAllFrom(_, _, _, _)
RemoveAllFrom(s, i, pat, ci) ==
    IF i > Len(s) THEN <<>>
    ELSE IF /\ i + Len(pat) - 1 <= Len(s)
            /\ LET w == SubSeq(s, i, i + Len(pat) - 1)
               IN (IF ci THEN ToLowerCase(w) ELSE w) = pat
         THEN RemoveAllFrom(s, i + Len(pat), pat, ci)
         ELSE <<s[i]>> \o RemoveAllFrom(s, i + 1, pat, ci)
RemoveAll(s, pat, ci) == RemoveAllFrom(s, 1, pat, ci)

\* s.trim()
RECURSIVE TrimEnd(_)
TrimEnd(s) ==
    IF s # <<>> /\ s[Len(s)] \in Whitespace THEN TrimEnd(SubSeq(s, 1, Len(s) - 1))
    ELSE s
Trim(s) == LET i == SkipWs(s, 1) IN TrimEnd(SubSeq(s, i, Len(s)))

(***************************************************************************)
(* Response reshaping (CLEANUP & SURGERY, FORMAT RESPONSE FOR GAME).       *)
(***************************************************************************)

FENCE == <<BACKTICK, BACKTICK, BACKTICK>>
FENCE_JSON == FENCE \o <<"j", "s", "o", "n">>
SCHEMA == <<"schema">>
MESSAGE == <<"message">>

\* 1. Remove Markdown
StripFences(responseText) ==
    Trim(RemoveAll(RemoveAll(responseText, FENCE_JSON, TRUE), FENCE, FALSE))

\* 2. If Action, extract JSON
ExtractJson(cleanText) ==
    LET Cut(firstBrace, lastBrace) ==
            IF firstBrace # -1 /\ lastBrace # -1
            THEN Substring(cleanText, firstBrace, lastBrace + 1)
            ELSE cleanText
    IN Cut(IndexOf(cleanText, "{"), LastIndexOf(cleanText, "}"))

\* the try block of the schema-wrapper step: the text it leaves in
\* cleanText, or a throw of its first JSON.parse (the second parse reads a
\* serialization and cannot throw)
SchemaWrapperTry(cleanText) ==
    LET Unwrap(schema) ==
            IF Truthy(schema) /\ TypeofObject(schema)
            THEN Returned(Stringify(schema))
            ELSE Returned(cleanText)
        Parsed(p) ==
            IF ~p.ok THEN Threw
            ELSE IF Truthy(p.v) THEN Unwrap(Get(p.v, SCHEMA))
            ELSE Returned(cleanText)
    IN Parsed(Parse(cleanText))

\* Unwrap schema wrapper; the catch logs INVALID JSON and goes on
UnwrapSchemaWrapper(cleanText) ==
    LET Caught(r) == IF r.ok THEN r.v ELSE cleanText
    IN Caught(SchemaWrapperTry(cleanText))

\* Object.keys(v).length, for v other than null and undefined
KeyCount(v) ==
    CASE v.t = "obj" -> Len(v.kv)
      [] v.t = "arr" -> Len(v.es)
      [] v.t = "str" -> Len(v.s)
      [] OTHER -> 0
\* v[Object.keys(v)[0]] when there is a key
FirstMember(v) ==
    CASE v.t = "obj" -> v.kv[1][2]
      [] v.t = "arr" -> v.es[1]
      [] v.t = "str" -> JStr(<<v.s[1]>>)

\* keys.length === 1 && typeof parsed[keys[0]] === "object"
\*                    && !Array.isArray(parsed[keys[0]])
UnwrapsRootKey(parsed) ==
    /\ KeyCount(parsed) = 1
    /\ TypeofObject(FirstMember(parsed))
    /\ ~IsArr(FirstMember(parsed))

\* the try block of the action branch of responseBody: JSON.parse throws on
\* text that is no JSON, Object.keys throws on null
ActionBodyTry(cleanText) ==
    LET Parsed(p) ==
            IF ~p.ok THEN Threw
            ELSE IF p.v.t = "null" THEN Threw
            ELSE IF UnwrapsRootKey(p.v) THEN Returned(Stringify(FirstMember(p.v)))
            ELSE Returned(cleanText)
    IN Parsed(Parse(cleanText))

ActionBodyUncaught(cleanText) == ActionBodyTry(cleanText)
\* the action branch of responseBody; catch { responseBody = cleanText }
ActionBody(cleanText) ==
    LET Caught(r) == IF r.ok THEN r ELSE Returned(cleanText)
    IN Caught(ActionBodyTry(cleanText))

ChatBodyExtracted(cleanText) ==
    Returned(Stringify(JObj(<<<<MESSAGE, JStr(ExtractJson(cleanText))>>>>)))
\* the chat branch of responseBody
ChatBody(cleanText) ==
    Returned(Stringify(JObj(<<<<MESSAGE, JStr(cleanText)>>>>)))

\* cleanText as it stands when the response is formatted
CleanText(act, responseText) ==
    IF act
    THEN UnwrapSchemaWrapper(ExtractJson(StripFences(responseText)))
    ELSE StripFences(responseText)

ResponseBodyRaw(act, responseText) ==
    IF ~IsStr(responseText) THEN Threw
    ELSE ActionBody(CleanText(TRUE, responseText.s))
\* CLEANUP & SURGERY and FORMAT RESPONSE FOR GAME on the operation's value:
\* the body of the response, or a throw (a value without replace())
ResponseBody(act, responseText) ==
    IF ~IsStr(responseText) THEN Threw
    ELSE IF act
         THEN ActionBody(CleanText(act, responseText.s))
         ELSE ChatBody(CleanText(act, responseText.s))

(***************************************************************************)
(* Schema conversion: convertSchemaForGoogle and fixTypeArrays.            *)
(***************************************************************************)
TYPE == <<"type">>
NULLABLE == <<"nullable">>
ADDITIONAL_PROPERTIES == <<"additionalProperties">>
MIN_ITEMS == <<"minItems">>
PROPERTIES == <<"properties">>
ITEMS == <<"items">>
ANY_OF == <<"anyOf">>
ONE_OF == <<"oneOf">>
ALL_OF == <<"allOf">>
NULL_NAME == JStr(<<"null">>)
STRING_NAME == JStr(<<"string">>)

DeleteKey(kv, k) == SelectSeq(kv, LAMBDA e : e[1] # k)

\* if (Array.isArray(obj.type)) { ... }
FixType(kv) ==
    LET ty == Get(JObj(kv), TYPE) IN
    IF IsArr(ty)
    THEN LET nonNull == SelectSeq(ty.es, LAMBDA x : x # NULL_NAME)
             hasNull == \E i \in 1..Len(ty.es) : ty.es[i] = NULL_NAME
             first == IF nonNull # <<>> /\ Truthy(nonNull[1])
                      THEN nonNull[1] ELSE STRING_NAME
             kvN == IF hasNull THEN SetKey(kv, NULLABLE, JBool(TRUE)) ELSE kv
         IN SetKey(kvN, TYPE, first)
    ELSE kv

\* delete obj.additionalProperties; delete obj.minItems;
DeleteUnsupported(kv) == DeleteKey(DeleteKey(kv, ADDITIONAL_PROPERTIES), MIN_ITEMS)

RECURSIVE fixTypeArrays(_)
\* xs.forEach(fixTypeArrays) over the members of a list
FixEach(xs) ==
    LET rs == [i \in 1..Len(xs) |-> fixTypeArrays(xs[i])] IN
    IF \A i \in 1..Len(xs) : rs[i].ok
    THEN Returned([i \in 1..Len(xs) |-> rs[i].v])
    ELSE Threw

\* the recursion into one member <<k, x>> of a node
FixMember(k, x) ==
    IF ~Truthy(x) THEN Returned(x)
    ELSE IF k = PROPERTIES THEN
        \* Object.values(obj.properties).forEach(fixTypeArrays)
        IF IsObj(x) THEN
            LET r == FixEach([i \in 1..Len(x.kv) |-> x.kv[i][2]]) IN
            IF r.ok
            THEN Returned(JObj([i \in 1..Len(x.kv) |-> <<x.kv[i][1], r.v[i]>>]))
            ELSE Threw
        ELSE IF IsArr(x) THEN
            LET r == FixEach(x.es) IN IF r.ok THEN Returned(JArr(r.v)) ELSE Threw
        ELSE Returned(x)
    ELSE IF k = ITEMS THEN fixTypeArrays(x)
    ELSE IF k \in {ANY_OF, ONE_OF, ALL_OF} THEN
        \* x.forEach exists on arrays only
        IF IsArr(x)
        THEN LET r == FixEach(x.es) IN IF r.ok THEN Returned(JArr(r.v)) ELSE Threw
        ELSE Threw
    ELSE Returned(x)

fixTypeArrays(obj) ==
    IF ~(IsObj(obj) \/ IsArr(obj)) THEN Returned(obj)
    ELSE IF IsArr(obj) THEN
        LET r == FixEach(obj.es) IN IF r.ok THEN Returned(JArr(r.v)) ELSE Threw
    ELSE
        LET kv == DeleteUnsupported(FixType(obj.kv))
            rs == [i \in 1..Len(kv) |-> FixMember(kv[i][1], kv[i][2])]
        IN IF \A i \in 1..Len(kv) : rs[i].ok
           THEN Returned(JObj([i \in 1..Len(kv) |-> <<kv[i][1], rs[i].v>>]))
           ELSE Threw

convertSchemaForGoogle(gameSchema) ==
    LET Fix(copy) == IF copy.ok THEN fixTypeArrays(copy.v) ELSE Threw
        \* JSON.stringify(undefined) is undefined, which JSON.parse rejects
        Copy(schema) ==
            IF schema = Undefined THEN Threw ELSE Fix(Parse(Stringify(schema)))
    IN Copy(IF Truthy(gameSchema) /\ Truthy(Get(gameSchema, SCHEMA))
            THEN Get(gameSchema, SCHEMA) ELSE gameSchema)

(***************************************************************************)
(* Retry policy: isRetryableError and the decision withRetry takes in its  *)
(* catch clause.  An Error is [t |-> "error", status, message]; status is  *)
(* undefined or a number.                                                  *)
(***************************************************************************)
MAX_RETRIES == 3
RETRY_DELAY_MS == 1000

ErrorOf(status, message) == [t |-> "error", status |-> status, message |-> message]


\* errorOrStatus === 429 || (errorOrStatus >= 500 && errorOrStatus < 600)
RetryableStatus(n) == n = 429 \/ (n >= 500 /\ n < 600)

isRetryableError(errorOrStatus) ==
    CASE errorOrStatus.t = "num" -> RetryableStatus(errorOrStatus.n)
      [] errorOrStatus.t = "error" ->
            LET msg == ToLowerCase(errorOrStatus.message) IN
            \/ Includes(msg, <<"n", "e", "t", "w", "o", "r", "k">>)
            \/ Includes(msg, <<"t", "i", "m", "e", "o", "u", "t">>)
            \/ Includes(msg, <<"f", "e", "t", "c", "h">>)
      [] OTHER -> FALSE

RECURSIVE Pow2(_)
Pow2(n) == IF n = 0 THEN 1 ELSE 2 * Pow2(n - 1)

\* RETRY_DELAY_MS * Math.pow(2, attempt - 1)
Backoff(attempt) == RETRY_DELAY_MS * Pow2(attempt - 1)

(***************************************************************************)
(* Settings (DEFAULTS, loadSettings, saveSettings).                        *)
(***************************************************************************)
DEFAULT_BASE_URL == <<"http://localhost:4141">>
DEFAULT_COPILOT_MODEL == <<"gpt-4.1">>
DEFAULT_BUDGET == 4096

DEFAULTS ==
    [provider |-> "google",
     apiKey |-> <<>>,
     modelName |-> <<"gemini-3-flash-preview">>,
     openRouterModel |-> <<"google/gemini-2.0-flash-thinking-exp:free">>,
     copilotBaseUrl |-> DEFAULT_BASE_URL,
     copilotModel |-> DEFAULT_COPILOT_MODEL,
     thinkingBudget |-> DEFAULT_BUDGET]

\* what the Save button can store: the provider is one of the three options
\* of the select, the base URL is never empty, the budget never 0
SettingsInputs ==
    {DEFAULTS,
     [DEFAULTS EXCEPT !.apiKey = <<"key-A">>, !.modelName = <<"gemini-pro">>,
                      !.thinkingBudget = 1024],
     [DEFAULTS EXCEPT !.provider = "openrouter"],
     [DEFAULTS EXCEPT !.provider = "openrouter", !.apiKey = <<"key-B">>,
                      !.openRouterModel = <<"vendor/model-x">>],
     [DEFAULTS EXCEPT !.provider = "copilot",
                      !.copilotBaseUrl = <<"http://gpu:8080", "/">>,
                      !.copilotModel = <<"claude-x">>],
     [DEFAULTS EXCEPT !.provider = "copilot", !.apiKey = <<"key-A">>,
                      !.copilotBaseUrl = <<"/">>]}

(***************************************************************************)
(* Inputs of the hooked fetch: url, options, and the game payloads.        *)
(***************************************************************************)
SIMPLE_CHAT == "/api/simple-chat"
BODY == <<"body">>
PROMPT == <<"prompt">>
PROMPT_STAGE == <<"promptStage">>
JSON_SCHEMA == <<"jsonSchema">>
NAME == <<"name">>
STRICT == <<"strict">>
CHAT_WITH_USER == JStr(<<"chatWithUser">>)
ADVISOR_RESPONSE == JStr(<<"advisorResponse">>)

\* url && url.toString().includes("/api/simple-chat"); the path is one token
Intercepted(u) ==
    Truthy(u) /\ \E i \in 1..Len(u.s) : u.s[i] = SIMPLE_CHAT

UrlInputs ==
    {JStr(<<"https://paxhistoria.co", SIMPLE_CHAT>>),
     JStr(<<"https://paxhistoria.co", "/api/games">>),
     Undefined}

AdvisorSchema ==
    JObj(<< <<NAME, ADVISOR_RESPONSE>>, <<STRICT, JBool(TRUE)>>,
            <<SCHEMA, JObj(<< <<TYPE, JArr(<<JStr(<<"object">>), NULL_NAME>>)>>,
                              <<ADDITIONAL_PROPERTIES, JBool(FALSE)>>,
                              <<PROPERTIES, JObj(<< <<MESSAGE,
                                    JObj(<< <<TYPE, JStr(<<"string">>)>> >>)>> >>)>> >>)>> >>)
\* an advisor schema whose anyOf is no list
AdvisorSchemaOddAnyOf ==
    JObj(<< <<NAME, ADVISOR_RESPONSE>>,
            <<SCHEMA, JObj(<< <<ANY_OF, JObj(<< <<TYPE, JStr(<<"string">>)>> >>)>> >>)>> >>)
EventsSchema ==
    JObj(<< <<NAME, JStr(<<"events">>)>>, <<STRICT, JBool(TRUE)>>,
            <<SCHEMA, JObj(<< <<TYPE, JStr(<<"object">>)>>,
                              <<MIN_ITEMS, JNum(1)>> >>)>> >>)
UserPrompt == JStr(<<"A", "d", "v", "i", "s", "e", " ", "m", "e">>)

PayloadInputs ==
    {JObj(<< <<PROMPT, UserPrompt>>, <<PROMPT_STAGE, CHAT_WITH_USER>> >>),
     JObj(<< <<PROMPT, UserPrompt>>, <<PROMPT_STAGE, CHAT_WITH_USER>>,
             <<JSON_SCHEMA, AdvisorSchema>> >>),
     JObj(<< <<PROMPT, UserPrompt>>, <<JSON_SCHEMA, AdvisorSchema>> >>),
     JObj(<< <<PROMPT, UserPrompt>>, <<JSON_SCHEMA, AdvisorSchemaOddAnyOf>> >>),
     JObj(<< <<PROMPT, UserPrompt>>, <<PROMPT_STAGE, JStr(<<"turn">>)>>,
             <<JSON_SCHEMA, EventsSchema>> >>),
     JObj(<< <<JSON_SCHEMA, JStr(<<"events">>)>> >>),
     JObj(<< <<PROMPT, UserPrompt>> >>),
     JNull}

\* options: absent, without a body, with a body that is no JSON, or with the
\* serialization of a payload
OptionsInputs ==
    {Undefined,
     JObj(<< >>),
     JObj(<< <<BODY, JStr(<<"{", QUOTE, "prompt", QUOTE>>)>> >>)}
    \cup {JObj(<< <<BODY, JStr(Stringify(p))>> >>) : p \in PayloadInputs}

(***************************************************************************)
(* Classification and prompt (DETERMINE REQUEST TYPE, isAdvisor,           *)
(* finalPrompt).                                                           *)
(***************************************************************************)
TASK_TEXT ==
    <<"\n", "\n", "TASK: Generate a valid JSON object matching this schema.",
      "\n", "SCHEMA: ">>
NO_MARKDOWN_TEXT ==
    <<"\n", "\n", "IMPORTANT: Return ONLY the JSON object. No markdown.">>

\* [ok |-> FALSE] when the block throws: options is undefined, the body is
\* no JSON, or the payload is null
Classify(o) ==
    LET Mode(userPrompt, promptStage, jsonSchema) ==
            IF promptStage = CHAT_WITH_USER
            THEN Returned([userPrompt |-> userPrompt, isAction |-> FALSE,
                           gameSchema |-> JNull])
            ELSE IF Truthy(jsonSchema)
            THEN Returned([userPrompt |-> userPrompt, isAction |-> TRUE,
                           gameSchema |-> jsonSchema])
            ELSE Returned([userPrompt |-> userPrompt, isAction |-> FALSE,
                           gameSchema |-> JNull])
        Prompt(prompt) == IF Truthy(prompt) THEN prompt.s ELSE <<>>
        Payload(p) ==
            IF ~p.ok \/ p.v = JNull THEN Threw
            ELSE Mode(Prompt(Get(p.v, PROMPT)), Get(p.v, PROMPT_STAGE),
                      Get(p.v, JSON_SCHEMA))
        Body(body) ==
            IF ~Truthy(body)
            THEN Returned([userPrompt |-> <<>>, isAction |-> FALSE,
                           gameSchema |-> JNull])
            ELSE Payload(Parse(body.s))
    IN IF o = Undefined THEN Threw ELSE Body(Get(o, BODY))

\* Classify over the inputs, evaluated once
Classified == [o \in OptionsInputs |-> Classify(o)]

\* isAction && gameSchema && gameSchema.name === "advisorResponse"
IsAdvisor(act, schema) ==
    act /\ Truthy(schema) /\ Get(schema, NAME) = ADVISOR_RESPONSE

FinalPromptAlways(userPrompt, act, schema) ==
    IF act /\ Truthy(schema)
    THEN userPrompt \o TASK_TEXT \o Stringify(schema) \o NO_MARKDOWN_TEXT
    ELSE userPrompt
\* let finalPrompt = userPrompt; if (isAction && gameSchema && !isAdvisor) ...
FinalPrompt(userPrompt, act, schema) ==
    IF act /\ Truthy(schema) /\ ~IsAdvisor(act, schema)
    THEN userPrompt \o TASK_TEXT \o Stringify(schema) \o NO_MARKDOWN_TEXT
    ELSE userPrompt

(***************************************************************************)
(* Provider adapters: the request each one builds, and the error each one  *)
(* throws for a failed reply.                                              *)
(***************************************************************************)
JSON_MIME == "application/json"
CHAT_ENDPOINT == <<"/v1/chat/completions">>

\* s.replace(/\/$/, ""); "/" is a token of a URL
StripTrailingSlash(s) ==
    IF s # <<>> /\ s[Len(s)] = "/" THEN SubSeq(s, 1, Len(s) - 1) ELSE s

OrElse(s, d) == IF s # <<>> THEN s ELSE d

\* The request of one invocation of the operation handed to withRetry:
\* [ok |-> FALSE] when building it throws.  st is the call's settings,
\* cur the stored settings at the time of the invocation.
GoogleRequest(st, prompt, adv, schema) ==
    LET Request(conv) ==
            IF ~conv.ok THEN Threw
            ELSE Returned(
                [to |-> "google", model |-> st.modelName, key |-> st.apiKey,
                 text |-> prompt, thinking_budget |-> st.thinkingBudget,
                 responseMimeType |-> IF adv THEN JSON_MIME ELSE "",
                 responseSchema |-> conv.v])
    IN Request(IF adv THEN convertSchemaForGoogle(schema)
               ELSE Returned(Undefined))

OpenRouterRequest(st, prompt, adv, schema) ==
    Returned(
        [to |-> "openrouter", model |-> st.openRouterModel, key |-> st.apiKey,
         text |-> prompt,
         response_format |-> IF adv THEN schema ELSE Undefined])

\* fetchCopilotApi: options.baseUrl || loadSettings().copilotBaseUrl
\*                  || DEFAULTS.copilotBaseUrl, trailing slash removed
CopilotRequest(st, cur, prompt) ==
    LET baseUrl == StripTrailingSlash(OrElse(st.copilotBaseUrl, DEFAULT_BASE_URL))
        used == StripTrailingSlash(
                    OrElse(baseUrl, OrElse(cur.copilotBaseUrl, DEFAULT_BASE_URL)))
    IN Returned(
        [to |-> "copilot", url |-> used \o CHAT_ENDPOINT,
         model |-> OrElse(st.copilotModel, DEFAULT_COPILOT_MODEL),
         text |-> prompt])

BuildRequestFromStore(st, cur, prompt, adv, schema) ==
    CASE cur.provider = "google" -> GoogleRequest(st, prompt, adv, schema)
      [] cur.provider = "openrouter" -> OpenRouterRequest(st, prompt, adv, schema)
      [] cur.provider = "copilot" -> CopilotRequest(st, cur, prompt)
\* the branch on settings.provider
BuildRequest(st, cur, prompt, adv, schema) ==
    CASE st.provider = "google" -> GoogleRequest(st, prompt, adv, schema)
      [] st.provider = "openrouter" -> OpenRouterRequest(st, prompt, adv, schema)
      [] st.provider = "copilot" -> CopilotRequest(st, cur, prompt)

GOOGLE_ERROR == <<"G", "o", "o", "g", "l", "e", " ", "A", "P", "I", " ", "E", "r", "r", "o", "r", ":", " ">>
OPENROUTER_ERROR == <<"O", "p", "e", "n", "R", "o", "u", "t", "e", "r", " ", "A", "P", "I", " ", "E", "r", "r", "o", "r", ":", " ">>
COPILOT_ERROR == <<"C", "o", "p", "i", "l", "o", "t", " ", "A", "P", "I", " ", "E", "r", "r", "o", "r", ":", " ">>
COPILOT_NETWORK_ERROR == <<"N", "e", "t", "w", "o", "r", "k", " ", "e", "r", "r", "o", "r", " ", "c", "o", "n", "n", "e", "c", "t", "i", "n", "g", " ", "t", "o", " ", "C", "o", "p", "i", "l", "o", "t", " ", "A", "P", "I">>
\* the engine's messages for a body that is no JSON, for a schema that
\* cannot be converted and for a completion that is no string
UNEXPECTED_TOKEN == <<"U", "n", "e", "x", "p", "e", "c", "t", "e", "d", " ", "t", "o", "k", "e", "n">>
NOT_A_FUNCTION == <<"i", "s", " ", "n", "o", "t", " ", "a", " ", "f", "u", "n", "c", "t", "i", "o", "n">>
NOT_AN_OBJECT == <<"TypeError in request classification">>

\* replies of a provider: a 2xx reply whose JSON carries the completion
\* (content: the member the adapter extracts, undefined when absent), a 2xx
\* reply that is no JSON, a non-2xx reply, or no reply at all
ContentInputs ==
    {JStr(<<"H", "e", "l", "l", "o">>),
     JStr(FENCE_JSON \o <<"\n">> \o <<"{", QUOTE, "advisorResponse", QUOTE, ":", "{", QUOTE, "message", QUOTE, ":", QUOTE, "h", "i", QUOTE, ",", QUOTE, "mapMode", QUOTE, ":", "{", "}", "}", "}">> \o <<"\n">> \o FENCE),
     JStr(<<"n", "o", " ", "j", "s", "o", "n">>),
     JStr(<<"{", QUOTE, "message", QUOTE, ":">>),
     JStr(<<"{", QUOTE, "a", QUOTE, ":", "n", "u", "l", "l", "}">>),
     JStr(<<"{", QUOTE, "name", QUOTE, ":", QUOTE, "x", QUOTE, ",", QUOTE, "schema", QUOTE, ":", "{", QUOTE, "message", QUOTE, ":", QUOTE, "h", "i", QUOTE, "}", "}">>),
     JStr(<<"}", " ", "{">>),
     JStr(<< >>),
     Undefined,
     JNum(7),
     JArr(<<JObj(<< <<TYPE, JStr(<<"text">>)>> >>)>>)}

ReplyInputs ==
    {[kind |-> "ok", content |-> c] : c \in ContentInputs}
    \cup {[kind |-> "notjson", text |-> t] : t \in {<<"<", "h", "t", "m", "l", ">">>}}
    \cup {[kind |-> "http", status |-> n, text |-> t] :
            n \in {400, 429, 500, 600},
            t \in {<<"i", "n", "v", "a", "l", "i", "d", " ", "a", "r", "g", "u",
                     "m", "e", "n", "t">>,
                   <<"u", "p", "s", "t", "r", "e", "a", "m", " ", "T", "i", "m",
                     "e", "o", "u", "t">>}}
    \cup {[kind |-> "transport", message |-> m] :
            m \in {<<"F", "a", "i", "l", "e", "d", " ", "t", "o", " ", "f", "e",
                     "t", "c", "h">>,
                   <<"L", "o", "a", "d", " ", "f", "a", "i", "l", "e", "d">>}}

\* ResponseBody over the values of the operation, evaluated once
Reshaped ==
    [act \in BOOLEAN,
     t \in {IF Truthy(c) THEN c ELSE JStr(<<>>) : c \in ContentInputs}
     |-> ResponseBody(act, t)]

\* the error the operation throws for a failed reply
AdapterError(provider, reply) ==
    CASE reply.kind = "http" /\ provider = "google" ->
            ErrorOf(JNum(reply.status), GOOGLE_ERROR \o reply.text)
      [] reply.kind = "http" /\ provider = "openrouter" ->
            ErrorOf(JNum(reply.status), OPENROUTER_ERROR \o reply.text)
      [] reply.kind = "http" /\ provider = "copilot" ->
            ErrorOf(JNum(reply.status),
                    COPILOT_ERROR
                    \o OrElse(reply.text, <<"H", "T", "T", "P", " ">> \o NatToText(reply.status)))
      \* fetchCopilotApi resolves {ok: false, status, data: null, text}
      [] reply.kind = "notjson" /\ provider = "copilot" ->
            ErrorOf(JNum(200), COPILOT_ERROR \o reply.text)
      \* myResponse.json() rejects with a SyntaxError
      [] reply.kind = "notjson" /\ provider # "copilot" ->
            ErrorOf(Undefined, UNEXPECTED_TOKEN)
      \* onerror: new Error("Network error ..."), then e.status = 0
      [] reply.kind = "transport" /\ provider = "copilot" ->
            ErrorOf(JNum(0), COPILOT_NETWORK_ERROR)
      \* originalFetch rejects with the browser's TypeError
      [] reply.kind = "transport" /\ provider # "copilot" ->
            ErrorOf(Undefined, reply.message)

\* the errors the operation can throw, and isRetryableError over them,
\* evaluated once
ErrorInputs ==
    {AdapterError(p, r) : p \in {"google", "openrouter", "copilot"},
                          r \in {x \in ReplyInputs : x.kind # "ok"}}
    \cup {ErrorOf(Undefined, NOT_A_FUNCTION)}
RetryableError == [e \in ErrorInputs |-> isRetryableError(e)]

\* isRetryableError(e) || isRetryableError(status), with
\* status = e.status || (e.response && e.response.status); no error of the
\* hook carries a response member
Retryable(e) ==
    LET status == IF Truthy(e.status) THEN e.status ELSE Undefined
    IN RetryableError[e] \/ isRetryableError(status)

RetriesOnceMore(attempt, e) == attempt <= MAX_RETRIES /\ Retryable(e)
\* attempt < MAX_RETRIES && (isRetryableError(e) || isRetryableError(status))
Retries(attempt, e) == attempt < MAX_RETRIES /\ Retryable(e)


(***************************************************************************)
(* The hooked fetch as a state machine.  One call is in progress at a      *)
(* time; its steps are cut at the points where the async function waits:   *)
(* the provider request, the backoff delay, the original fetch.            *)
(***************************************************************************)
VARIABLES
    store,        \* the stored settings (GM_getValue / GM_setValue)
    pc,           \* idle | provider | backoff | original | done (returned)
    url, options, \* the arguments of the call
    settings,     \* const settings = loadSettings(), undefined before it
    isAction, gameSchema, finalPrompt,
    responseText, \* the value withRetry returned, undefined before it
    attempt,      \* withRetry: the loop counter
    lastError,    \* withRetry: lastError
    invoked,      \* how often the call invoked the wrapped operation
    waits,        \* the delays the call waited for, in order
    net,          \* the requests the call issued, in order
    outcomes,     \* per invocation: "ok", or how its error classifies:
                  \* "retryable" or "fatal"
    thrown,       \* the error the top-level catch received, else undefined
    result,       \* what the hooked fetch returned, undefined before it
    input, output \* argument and value of a function applied on its own

vars == <<store, pc, url, options, settings, isAction, gameSchema, finalPrompt,
          responseText, attempt, lastError, invoked, waits, net, outcomes, thrown, result,
          input, output>>
callVars == <<pc, url, options, settings, isAction, gameSchema, finalPrompt,
              responseText, attempt, lastError, invoked, waits, net, outcomes, thrown, result>>

OriginalRequestWithoutOptions(u, o) ==
    [to |-> "original", url |-> u, options |-> Undefined]
\* originalFetch(url, options)
OriginalRequest(u, o) == [to |-> "original", url |-> u, options |-> o]

\* new Response(responseBody, {status: 200, headers: {"Content-Type": ...}})
Synthesized(body) ==
    [kind |-> "synthesized", status |-> 200, contentType |-> JSON_MIME,
     body |-> body]

\* no call in progress, the settings as installed
Installed ==
    /\ store = DEFAULTS
    /\ pc = "idle"
    /\ url = Undefined
    /\ options = Undefined
    /\ settings = Undefined
    /\ isAction = FALSE
    /\ gameSchema = JNull
    /\ finalPrompt = <<>>
    /\ responseText = Undefined
    /\ attempt = 0
    /\ lastError = Undefined
    /\ invoked = 0
    /\ waits = <<>>
    /\ net = <<>>
    /\ outcomes = <<>>
    /\ thrown = Undefined
    /\ result = Undefined

Init ==
    /\ Installed
    /\ input = Undefined
    /\ output = Undefined

CallOriginalDropped(st, act, schema, prompt, n, err) ==
    /\ pc' = "done"
    /\ settings' = st
    /\ isAction' = act
    /\ gameSchema' = schema
    /\ finalPrompt' = prompt
    /\ net' = n
    /\ thrown' = err
\* return originalFetch(url, options): the request goes out, the call waits
CallOriginal(st, act, schema, prompt, n, err) ==
    /\ pc' = "original"
    /\ settings' = st
    /\ isAction' = act
    /\ gameSchema' = schema
    /\ finalPrompt' = prompt
    /\ net' = Append(n, OriginalRequest(url', options'))
    /\ thrown' = err

\* what the catch clause of withRetry does with e at this attempt: wait and
\* loop, or rethrow into the top-level catch, which calls the original fetch
\* (n, w, oc: the requests, waits and outcomes of the call so far).  The
\* locals attempt and lastError of withRetry end with it.
Failed(a, e, st, act, schema, prompt, n, w, oc) ==
    IF Retries(a, e)
    THEN /\ pc' = "backoff"
         /\ settings' = st
         /\ isAction' = act
         /\ gameSchema' = schema
         /\ finalPrompt' = prompt
         /\ net' = n
         /\ thrown' = Undefined
         /\ attempt' = a
         /\ lastError' = e
         /\ waits' = Append(w, Backoff(a))
         /\ outcomes' = Append(oc, "retryable")
    ELSE /\ CallOriginal(st, act, schema, prompt, n, e)
         /\ attempt' = 0
         /\ lastError' = Undefined
         /\ waits' = w
         /\ outcomes' = Append(oc, IF Retryable(e) THEN "retryable" ELSE "fatal")

\* one pass of the loop of withRetry up to the point where it waits:
\* the operation is invoked; it sends its request, or throws at once
Invoke(a, st, act, schema, prompt, n, w, oc, le) ==
    LET b == BuildRequest(st, store, prompt, IsAdvisor(act, schema), schema) IN
    /\ invoked' = a
    /\ IF b.ok
       THEN /\ pc' = "provider"
            /\ settings' = st
            /\ isAction' = act
            /\ gameSchema' = schema
            /\ finalPrompt' = prompt
            /\ net' = Append(n, b.v)
            /\ thrown' = Undefined
            /\ attempt' = a
            /\ lastError' = le
            /\ waits' = w
            /\ outcomes' = oc
       ELSE Failed(a, ErrorOf(Undefined, NOT_A_FUNCTION), st, act, schema,
                   prompt, n, w, oc)

\* the call ends before withRetry is entered
NoRetryState ==
    /\ attempt' = 0
    /\ lastError' = Undefined
    /\ invoked' = 0
    /\ waits' = <<>>
    /\ outcomes' = <<>>

NeedsKeyAlways(st) == TRUE
\* const needsApiKey = !isCopilot
NeedsApiKey(st) == st.provider # "copilot"

\* unsafeWindow.fetch(url, options), up to its first wait
FetchEntry(u, o) ==
    /\ pc = "idle"
    /\ url' = u
    /\ options' = o
    /\ result' = Undefined
    /\ responseText' = Undefined
    /\ UNCHANGED <<store, input, output>>
    /\ IF ~Intercepted(u)
       THEN /\ CallOriginal(Undefined, FALSE, JNull, <<>>, <<>>, Undefined)
            /\ NoRetryState
       ELSE LET st == store IN
            IF NeedsApiKey(st) /\ st.apiKey = <<>>
            THEN /\ CallOriginal(st, FALSE, JNull, <<>>, <<>>, Undefined)
                 /\ NoRetryState
            ELSE LET c == Classified[o] IN
                 IF ~c.ok
                 THEN /\ CallOriginal(st, FALSE, JNull, <<>>, <<>>,
                                      ErrorOf(Undefined, NOT_AN_OBJECT))
                      /\ NoRetryState
                 ELSE Invoke(1, st, c.v.isAction, c.v.gameSchema,
                             FinalPrompt(c.v.userPrompt, c.v.isAction,
                                         c.v.gameSchema),
                             <<>>, <<>>, <<>>, Undefined)

\* the provider request completes: the operation returns the completion or
\* throws; on a completion the response is reshaped and returned
ProviderReply(reply) ==
    /\ pc = "provider"
    /\ UNCHANGED <<store, url, options, invoked, input, output>>
    /\ IF reply.kind = "ok"
       THEN LET value == IF Truthy(reply.content) THEN reply.content
                         ELSE JStr(<<>>)
                body == Reshaped[isAction, value]
            IN /\ responseText' = value
               /\ outcomes' = Append(outcomes, "ok")
               /\ attempt' = 0
               /\ lastError' = Undefined
               /\ waits' = waits
               /\ IF body.ok
                  THEN /\ pc' = "done"
                       /\ result' = Synthesized(body.v)
                       /\ UNCHANGED <<settings, isAction, gameSchema, finalPrompt,
                                      net, thrown>>
                  ELSE /\ CallOriginal(settings, isAction, gameSchema, finalPrompt,
                                       net, ErrorOf(Undefined, NOT_A_FUNCTION))
                       /\ result' = result
       ELSE /\ Failed(attempt, AdapterError(settings.provider, reply), settings,
                      isAction, gameSchema, finalPrompt, net, waits, outcomes)
            /\ result' = result
            /\ responseText' = responseText

\* the delay of withRetry elapses: the loop counter advances and the
\* operation is invoked again
BackoffElapsed ==
    /\ pc = "backoff"
    /\ UNCHANGED <<store, url, options, result, responseText, input, output>>
    /\ Invoke(attempt + 1, settings, isAction, gameSchema, finalPrompt, net,
              waits, outcomes, lastError)

\* the original fetch settles; the hooked fetch returns its promise
OriginalReply(how) ==
    /\ pc = "original"
    /\ pc' = "done"
    /\ result' = [kind |-> "original", request |-> net[Len(net)], outcome |-> how]
    /\ UNCHANGED <<store, url, options, settings, isAction, gameSchema,
                   finalPrompt, responseText, attempt, lastError, invoked, waits,
                   net, outcomes, thrown, input, output>>

\* the page takes the settled promise; the call and its locals are over
PageReceives ==
    /\ pc = "done"
    /\ pc' = "idle"
    /\ url' = Undefined
    /\ options' = Undefined
    /\ settings' = Undefined
    /\ isAction' = FALSE
    /\ gameSchema' = JNull
    /\ finalPrompt' = <<>>
    /\ responseText' = Undefined
    /\ attempt' = 0
    /\ lastError' = Undefined
    /\ invoked' = 0
    /\ waits' = <<>>
    /\ net' = <<>>
    /\ outcomes' = <<>>
    /\ thrown' = Undefined
    /\ result' = Undefined
    /\ UNCHANGED <<store, input, output>>

\* the Save button of the settings dialog: saveSettings(newSettings)
SaveSettings(newSettings) ==
    /\ newSettings # store
    /\ store' = newSettings
    /\ UNCHANGED <<callVars, input, output>>

\* the calls of the page: every options value with the chat URL, two with
\* the others
CallInputs ==
    {<<u, o>> \in UrlInputs \X OptionsInputs :
        Intercepted(u) \/ o = Undefined \/ o = JObj(<< >>)}

Next ==
    \/ \E c \in CallInputs : FetchEntry(c[1], c[2])
    \/ \E reply \in ReplyInputs : ProviderReply(reply)
    \/ BackoffElapsed
    \/ \E how \in {"resolved", "rejected"} : OriginalReply(how)
    \/ PageReceives
    \/ \E newSettings \in SettingsInputs : SaveSettings(newSettings)

Spec == Init /\ [][Next]_vars

\* Every request the call waits for completes and every delay elapses: the
\* step that resumes the suspended call is taken once it stays possible.
\* The second conjunct is WF_vars(BackoffElapsed) written out:
\* BackoffElapsed is possible exactly while pc = "backoff", since past its
\* guard every assignment of it is defined and pc changes.
Completion ==
    /\ WF_vars(\E reply \in ReplyInputs : ProviderReply(reply))
    /\ <>[](pc = "backoff") => []<><<BackoffElapsed>>_vars
    /\ WF_vars(\E how \in {"resolved", "rejected"} : OriginalReply(how))

SpecLive == Spec /\ Completion

(***************************************************************************)
(* The reshaping of a completion (CLEANUP & SURGERY and FORMAT RESPONSE    *)
(* FOR GAME) applied on its own to bounded texts: up to MaxPieces pieces   *)
(* in a row, and every JSON document between two pieces.                   *)
(***************************************************************************)
MaxPieces == 3

Pieces ==
    {FENCE, FENCE_JSON,
     <<BACKTICK, BACKTICK, BACKTICK, "J", "S", "O", "N">>,
     <<BACKTICK>>, <<" ">>, <<"\n">>, <<"{">>, <<"}">>,
     <<"H", "i">>, <<"j", "s", "o", "n">>}

RECURSIVE PieceTexts(_)
PieceTexts(n) ==
    IF n = 0 THEN {<<>>}
    ELSE LET shorter == PieceTexts(n - 1)
         IN shorter \cup {t \o piece : t \in shorter, piece \in Pieces}

KeyA == <<"a">>
KeyB == <<"b">>
KeyC == <<"c">>
DocValues ==
    {JObj(<< <<KeyA, JObj(<< <<KeyB, JNum(1)>> >>)>> >>),
     JObj(<< <<KeyA, JNull>> >>),
     JObj(<< <<KeyA, JArr(<<JNum(1)>>)>> >>),
     JObj(<< <<KeyA, JNum(1)>> >>),
     JObj(<< <<KeyA, JStr(<<"H", "i">>)>> >>),
     JObj(<< <<KeyA, JObj(<< <<KeyB, JNum(1)>> >>)>>, <<KeyC, JNum(2)>> >>),
     JObj(<< <<KeyA, JObj(<< <<KeyB, JObj(<< <<KeyC, JNum(1)>> >>)>> >>)>> >>),
     JObj(<< <<KeyA, JObj(<< >>)>> >>),
     JObj(<< <<SCHEMA, JObj(<< <<MESSAGE, JStr(<<"H", "i">>)>> >>)>> >>),
     JObj(<< <<NAME, JStr(<<"x">>)>>,
             <<SCHEMA, JObj(<< <<KeyA, JObj(<< <<KeyB, JNum(1)>> >>)>> >>)>> >>),
     JObj(<< <<NAME, JStr(<<"x">>)>>, <<STRICT, JBool(TRUE)>>,
             <<SCHEMA, JObj(<< <<MESSAGE, JStr(<<"H", "i">>)>>,
                               <<KeyB, JNum(1)>> >>)>> >>),
     JObj(<< <<SCHEMA, JArr(<<JNum(1)>>)>> >>),
     JObj(<< <<SCHEMA, JStr(<<"H", "i">>)>> >>),
     JObj(<< >>),
     JNull, JArr(<<JNull>>), JArr(<<JArr(<<JNum(1)>>)>>),
     JStr(<<"s">>), JNum(7), JBool(TRUE)}

DocTexts ==
    {before \o Stringify(v) \o after :
        before \in Pieces \cup {<<>>}, v \in DocValues, after \in Pieces \cup {<<>>}}

HELLO == <<"H", "e", "l", "l", "o">>
AdvisorReply ==
    JObj(<< <<ADVISOR_RESPONSE.s, JObj(<< <<MESSAGE, JStr(<<"h", "i">>)>>,
                                          <<<<"mapMode">>, JObj(<< >>)>> >>)>> >>)
FencedAdvisorReply ==
    FENCE_JSON \o <<"\n">> \o Stringify(AdvisorReply) \o <<"\n">> \o FENCE

ReshapeInputs ==
    [fn : {"reshape"}, isAction : BOOLEAN,
     text : PieceTexts(MaxPieces) \cup DocTexts \cup {HELLO, FencedAdvisorReply}]

InitReshape ==
    /\ Installed
    /\ input \in ReshapeInputs
    /\ output = Undefined

\* lines 689-742 on input.text: cleanText after step 1 (stripped), after
\* step 2 (extracted) and as it stands when the response is formatted, and
\* the body
ApplyReshape ==
    /\ input # Undefined /\ input.fn = "reshape"
    /\ output = Undefined
    /\ output' = [stripped |-> StripFences(input.text),
                  extracted |-> IF input.isAction
                                THEN ExtractJson(StripFences(input.text))
                                ELSE StripFences(input.text),
                  cleanText |-> CleanText(input.isAction, input.text),
                  body |-> ResponseBody(input.isAction, JStr(input.text))]
    /\ UNCHANGED <<store, callVars, input>>

SpecReshape == InitReshape /\ [][ApplyReshape]_vars

(***************************************************************************)
(* convertSchemaForGoogle applied on its own to bounded schemas: nodes     *)
(* nested to MaxSchemaDepth under every keyword that carries a subschema.  *)
(***************************************************************************)
MaxSchemaDepth == 2

NOT_KEY == <<"not">>
DEFS_KEY == <<"$defs">>
IntegerType == JObj(<< <<TYPE, JStr(<<"integer">>)>> >>)

LeafSchemas ==
    {JObj(<< <<TYPE, STRING_NAME>> >>),
     JObj(<< <<TYPE, JArr(<<STRING_NAME, NULL_NAME>>)>>, <<MIN_ITEMS, JNum(1)>> >>),
     JObj(<< <<TYPE, JArr(<<NULL_NAME>>)>>, <<ADDITIONAL_PROPERTIES, JBool(FALSE)>> >>),
     JObj(<< <<TYPE, JStr(<<"array">>)>>, <<MIN_ITEMS, JNum(2)>>,
             <<ITEMS, IntegerType>> >>),
     \* a property that happens to be called minItems
     JObj(<< <<TYPE, JStr(<<"object">>)>>,
             <<PROPERTIES, JObj(<< <<MIN_ITEMS, IntegerType>> >>)>> >>)}

\* the nodes that carry s under one keyword
Nest(s) ==
    {JObj(<< <<TYPE, JStr(<<"object">>)>>, <<ADDITIONAL_PROPERTIES, JBool(FALSE)>>,
             <<PROPERTIES, JObj(<< <<KeyA, s>> >>)>> >>),
     JObj(<< <<TYPE, JArr(<<JStr(<<"array">>), NULL_NAME>>)>>, <<ITEMS, s>> >>),
     JObj(<< <<ANY_OF, JArr(<<s, IntegerType>>)>> >>),
     JObj(<< <<ONE_OF, JArr(<<s>>)>>, <<MIN_ITEMS, JNum(1)>> >>),
     JObj(<< <<ALL_OF, JArr(<<IntegerType, s>>)>> >>),
     JObj(<< <<NOT_KEY, s>> >>),
     JObj(<< <<DEFS_KEY, JObj(<< <<KeyA, s>> >>)>>, <<TYPE, JStr(<<"object">>)>> >>)}

RECURSIVE Schemas(_)
Schemas(d) ==
    IF d = 0 THEN LeafSchemas
    ELSE LeafSchemas \cup UNION {Nest(s) : s \in Schemas(d - 1)}

Envelope(s) ==
    JObj(<< <<NAME, ADVISOR_RESPONSE>>, <<STRICT, JBool(TRUE)>>, <<SCHEMA, s>> >>)

SchemaInputs ==
    [fn : {"schema"},
     gameSchema : {Envelope(s) : s \in Schemas(MaxSchemaDepth)}
                  \cup LeafSchemas
                  \cup {Undefined, JNull, JObj(<< <<NAME, ADVISOR_RESPONSE>> >>),
                        JObj(<< <<ANY_OF, IntegerType>> >>)}]

InitSchema ==
    /\ Installed
    /\ input \in SchemaInputs
    /\ output = Undefined

ApplySchema ==
    /\ input # Undefined /\ input.fn = "schema"
    /\ output = Undefined
    /\ output' = convertSchemaForGoogle(input.gameSchema)
    /\ UNCHANGED <<store, callVars, input>>

SpecSchema == InitSchema /\ [][ApplySchema]_vars

(***************************************************************************)
(* Properties of the hooked fetch (specification Spec).                    *)
(***************************************************************************)
\* the call in progress is intercepted and passed the credential check
PassedCredentialCheck ==
    /\ pc # "idle"
    /\ Intercepted(url)
    /\ (settings.provider = "copilot" \/ settings.apiKey # <<>>)

\* the call has no options, or a body that is no JSON or the JSON null
PayloadUnusable ==
    \/ options = Undefined
    \/ /\ Truthy(Get(options, BODY))
       /\ LET p == Parse(Get(options, BODY).s) IN ~p.ok \/ p.v = JNull

\* the call has options without a body
MissingBody == options # Undefined /\ ~Truthy(Get(options, BODY))

\* every invocation of the operation has ended, the last one as named
LastOutcome(kinds) ==
    /\ invoked >= 1
    /\ Len(outcomes) = invoked
    /\ outcomes[invoked] \in kinds

\* the retry policy re-raised the failure of the operation
ProviderGaveUp == LastOutcome({"retryable", "fatal"}) /\ pc # "backoff"

\* the operation returned a value the reshaping cannot handle
ReshapingThrew == LastOutcome({"ok"}) /\ ~IsStr(responseText)

\* the original fetch went out once, last, with the caller's arguments, and
\* its result is what the call returns
FellBack ==
    /\ pc \in {"original", "done"}
    /\ net # <<>>
    /\ net[Len(net)] = [to |-> "original", url |-> url, options |-> options]
    /\ \A i \in 1..(Len(net) - 1) : net[i].to # "original"
    /\ pc = "done" =>
          /\ result.kind = "original"
          /\ result.request = [to |-> "original", url |-> url, options |-> options]

\* C1 (as amended): an intercepted call that passed the credential check and
\* then fails for good (no options, a body that is no JSON or null, a
\* provider failure the retry policy re-raises, an exception in reshaping)
\* issues the original fetch exactly once with the caller's url and options
\* and returns that call's result.  Options without a body are no failure.
C1_FallsBackOnFailure ==
    (PassedCredentialCheck /\ (PayloadUnusable \/ ProviderGaveUp \/ ReshapingThrew))
        => FellBack

C1_Witness ==
    /\ PassedCredentialCheck
    /\ ProviderGaveUp
    /\ pc = "done"
    /\ result.kind = "original"
    /\ Len(net) = 4

\* C1 (as stated): a missing body counts among the failures that make the
\* call fall back to the original fetch.
C1_AsStated ==
    (PassedCredentialCheck
        /\ (MissingBody \/ PayloadUnusable \/ ProviderGaveUp \/ ReshapingThrew))
        => FellBack

RECURSIVE LeadingRetryable(_)
\* the number of retryable failures in a row from the first attempt
LeadingRetryable(oc) ==
    IF oc = <<>> \/ Head(oc) # "retryable" THEN 0
    ELSE 1 + LeadingRetryable(Tail(oc))

Min(a, b) == IF a <= b THEN a ELSE b

\* the waits before invocations 2..k
WaitsBefore(k) == [i \in 1..(k - 1) |-> 1000 * 2 ^ (i - 1)]

\* C2: when the operation fails retryably n times in a row from the first
\* attempt, withRetry invokes it exactly min(3, 1 + n) times; it waits
\* 1000 ms before the second invocation and 2000 ms before the third, and
\* not at all after the third.
C2_AttemptsAndWaits ==
    /\ Len(waits) <= 2
    /\ waits = WaitsBefore(Len(waits) + 1)
    /\ pc = "provider" => Len(waits) = invoked - 1
    /\ pc = "backoff" => Len(waits) = invoked
    /\ (LastOutcome({"ok", "retryable", "fatal"}) /\ pc # "backoff") =>
          /\ invoked = Min(3, 1 + LeadingRetryable(outcomes))
          /\ waits = WaitsBefore(invoked)

C2_Witness ==
    /\ outcomes = <<"retryable", "retryable", "retryable">>
    /\ invoked = 3
    /\ waits = <<1000, 2000>>
    /\ pc = "original"

\* e carries an HTTP status that is neither 429 nor 5xx
HttpFatal(e) ==
    /\ e # Undefined
    /\ Truthy(e.status)
    /\ e.status.n # 429
    /\ e.status.n \notin 500..599

\* C3 (as stated): a failure that carries an HTTP status other than 429 and
\* 5xx is never retried, whatever its message: no backoff wait follows it,
\* and when it is the first failure the operation was invoked once.
C3_AsStated ==
    /\ pc = "backoff" => ~HttpFatal(lastError)
    /\ (thrown # Undefined /\ HttpFatal(thrown) /\ Len(outcomes) = 1) =>
          (invoked = 1 /\ waits = <<>>)

\* C4: once the operation has returned a completion text, the call returns
\* the synthesized response, status 200 and JSON content type, whatever the
\* text; the original destination is not contacted.
C4_SynthesizedAfterSuccess ==
    (LastOutcome({"ok"}) /\ IsStr(responseText)) =>
        /\ pc = "done"
        /\ thrown = Undefined
        /\ result.kind = "synthesized"
        /\ result.status = 200
        /\ result.contentType = "application/json"
        /\ \A i \in 1..Len(net) : net[i].to # "original"

\* an action call returned a text that is no JSON
C4_Witness ==
    /\ LastOutcome({"ok"})
    /\ pc = "done"
    /\ isAction
    /\ result.kind = "synthesized"
    /\ ~Parse(result.body).ok

\* the payload of the call in progress
GamePayload == Parse(Get(options, BODY).s).v

\* C7: for an action request whose schema is named advisorResponse the
\* Google request carries the JSON mime type and the converted schema, and
\* its prompt is the game's prompt unchanged; for any other schema name it
\* carries neither, and its prompt is the game's prompt followed by the
\* instruction that embeds the schema and forbids markdown.
C7_OneStrategy ==
    \A i \in 1..Len(net) :
        (net[i].to = "google" /\ isAction) =>
            LET schema == Get(GamePayload, JSON_SCHEMA)
                prompt == IF Truthy(Get(GamePayload, PROMPT))
                          THEN Get(GamePayload, PROMPT).s ELSE <<>>
            IN IF Get(schema, NAME) = ADVISOR_RESPONSE
               THEN /\ net[i].responseMimeType = "application/json"
                    /\ net[i].responseSchema = convertSchemaForGoogle(schema).v
                    /\ ~HasKey(net[i].responseSchema, ADDITIONAL_PROPERTIES)
                    /\ net[i].text = prompt
               ELSE /\ net[i].responseMimeType = ""
                    /\ net[i].responseSchema = Undefined
                    /\ net[i].text = prompt \o TASK_TEXT \o Stringify(schema)
                                            \o NO_MARKDOWN_TEXT

C7_Witness ==
    /\ isAction
    /\ Len(net) = 2
    /\ net[2].to = "google"
    /\ net[2].responseSchema # Undefined
    /\ net[2].text = UserPrompt.s

\* C8: every provider request of a call, whatever the attempt, goes to the
\* provider the call's settings name, and a synthesized response is only
\* returned after a request to that provider.
C8_OneProvider ==
    /\ \A i \in 1..Len(net) :
          \/ net[i].to = "original"
          \/ settings # Undefined /\ net[i].to = settings.provider
    /\ (result # Undefined /\ result.kind = "synthesized") =>
          /\ invoked >= 1
          /\ \E i \in 1..Len(net) : net[i].to = settings.provider

\* the provider was changed in the dialog between two attempts
C8_Witness ==
    /\ pc = "done"
    /\ result.kind = "synthesized"
    /\ Len(net) = 2
    /\ net[1].to = net[2].to
    /\ store.provider # settings.provider

\* C9: with google or openrouter and an empty credential an intercepted
\* call makes no provider request and no attempt: the only request is the
\* original fetch with the caller's url and options, whose result it
\* returns.  With copilot an empty credential does not end the call: a
\* usable payload is sent to the provider.
C9_MissingCredential ==
    (pc # "idle" /\ Intercepted(url) /\ settings.apiKey = <<>>) =>
        IF settings.provider \in {"google", "openrouter"}
        THEN /\ net = <<[to |-> "original", url |-> url, options |-> options]>>
             /\ invoked = 0
             /\ waits = <<>>
             /\ thrown = Undefined
             /\ pc \in {"original", "done"}
             /\ pc = "done" => result.kind = "original"
        ELSE ~PayloadUnusable =>
                (invoked >= 1 /\ net # <<>> /\ net[1].to = "copilot")

C9_Witness ==
    /\ pc = "done"
    /\ Intercepted(url)
    /\ settings.provider = "openrouter"
    /\ settings.apiKey = <<>>
    /\ result.kind = "original"
    /\ Truthy(Get(options, BODY))

(***************************************************************************)
(* Properties of the reshaping (specification SpecReshape).                *)
(***************************************************************************)
HasReshaped == output # Undefined /\ input.fn = "reshape"

\* a token a fence marker or surrounding whitespace is made of
MarkerToken(c) ==
    c = BACKTICK \/ c \in Whitespace \/ ToLowerToken(c) \in {"j", "s", "o", "n"}

RECURSIVE DeletesMarkersOnly(_, _)
\* m is t with some marker tokens deleted and nothing else changed
DeletesMarkersOnly(m, t) ==
    IF t = <<>> THEN m = <<>>
    ELSE \/ m # <<>> /\ Head(m) = Head(t) /\ DeletesMarkersOnly(Tail(m), Tail(t))
         \/ MarkerToken(Head(t)) /\ DeletesMarkersOnly(m, Tail(t))

\* m is t without the whitespace around it
TrimmedOf(m, t) ==
    /\ m = <<>> \/ (m[1] \notin Whitespace /\ m[Len(m)] \notin Whitespace)
    /\ \E a \in 0..(Len(t) - Len(m)) :
          /\ SubSeq(t, a + 1, a + Len(m)) = m
          /\ \A k \in (1..a) \cup ((a + Len(m) + 1)..Len(t)) : t[k] \in Whitespace

\* C5: in chat mode the body is, for every completion text t, the
\* serialization of an object whose only key is message; its value is t
\* without fence markers and without whitespace around it: it holds no
\* fence, differs from t by marker tokens only, and is t trimmed when t
\* holds no fence, braces and envelopes included.  Hello gives
\* {"message":"Hello"}.
C5_ChatBody ==
    (HasReshaped /\ ~input.isAction) =>
        /\ output.body.ok
        /\ LET p == Parse(output.body.v) IN
           /\ p.ok
           /\ IsObj(p.v)
           /\ Len(p.v.kv) = 1
           /\ p.v.kv[1][1] = <<"message">>
           /\ IsStr(p.v.kv[1][2])
           /\ LET m == p.v.kv[1][2].s IN
              /\ ~Includes(m, FENCE)
              /\ m = <<>> \/ (m[1] \notin Whitespace /\ m[Len(m)] \notin Whitespace)
              /\ DeletesMarkersOnly(m, input.text)
              /\ ~Includes(input.text, FENCE) => TrimmedOf(m, input.text)
        /\ input.text = HELLO =>
              output.body.v = <<"{", QUOTE, "message", QUOTE, ":", QUOTE,
                                "H", "e", "l", "l", "o", QUOTE, "}">>

\* a fenced single-key document in chat mode stays whole inside message
C5_Witness ==
    /\ HasReshaped
    /\ ~input.isAction
    /\ input.text = FENCE_JSON \o <<"{", QUOTE, "a", QUOTE, ":", "{", QUOTE, "b",
                                    QUOTE, ":", "1", "}", "}">> \o FENCE
    /\ Parse(output.body.v).v.kv[1][2].s
          = <<"{", QUOTE, "a", QUOTE, ":", "{", QUOTE, "b", QUOTE, ":", "1", "}", "}">>

\* the value is a JSON object or list with exactly one member, which is a
\* JSON object
SoleMemberIsObject(v) ==
    \/ IsObj(v) /\ Len(v.kv) = 1 /\ IsObj(v.kv[1][2])
    \/ IsArr(v) /\ Len(v.es) = 1 /\ IsObj(v.es[1])

\* C6 (as stated): in action mode the body is the serialization of the
\* inner value exactly when the cleaned text parses to a value with one key
\* whose value is a non-array object; in every other case (several keys, no
\* key, a sole value that is a scalar or a list, no JSON) it is the cleaned
\* text unchanged.  The fenced advisorResponse example gives the inner
\* object, and only one level is unwrapped.
C6_AsStated ==
    (HasReshaped /\ input.isAction) =>
        /\ output.body.ok
        /\ LET p == Parse(output.cleanText) IN
           IF p.ok /\ SoleMemberIsObject(p.v)
           THEN output.body.v = Stringify(FirstMember(p.v))
           ELSE output.body.v = output.cleanText
        /\ input.text = FencedAdvisorReply =>
              output.body.v = <<"{", QUOTE, "message", QUOTE, ":", QUOTE, "h", "i",
                                QUOTE, ",", QUOTE, "mapMode", QUOTE, ":", "{", "}",
                                "}">>

(***************************************************************************)
(* Properties of the schema conversion (specification SpecSchema).         *)
(***************************************************************************)
RECURSIVE HasUnsupported(_)
\* some schema node of the tree, under whichever keyword, has an
\* additionalProperties or a minItems key
HasUnsupported(node) ==
    IF IsArr(node) THEN \E i \in 1..Len(node.es) : HasUnsupported(node.es[i])
    ELSE IF ~IsObj(node) THEN FALSE
    ELSE \/ HasKey(node, ADDITIONAL_PROPERTIES)
         \/ HasKey(node, MIN_ITEMS)
         \/ \E i \in 1..Len(node.kv) :
               LET k == node.kv[i][1]
                   x == node.kv[i][2]
               IN \/ /\ k \in {ITEMS, ANY_OF, ONE_OF, ALL_OF, NOT_KEY}
                     /\ HasUnsupported(x)
                  \/ /\ k \in {PROPERTIES, DEFS_KEY}
                     /\ IsObj(x)
                     /\ \E j \in 1..Len(x.kv) : HasUnsupported(x.kv[j][2])

\* C10 (as stated): the output of convertSchemaForGoogle has no
\* additionalProperties and no minItems key at any schema node, at any
\* depth, whichever keyword the node is nested under.
C10_AsStated ==
    (output # Undefined /\ input.fn = "schema" /\ output.ok)
        => ~HasUnsupported(output.v)

\* the schema convertSchemaForGoogle converts: the envelope's schema member
\* when it has one, the argument itself otherwise
ConvertedSchema == 
    IF Truthy(input.gameSchema) /\ Truthy(Get(input.gameSchema, SCHEMA))
    THEN Get(input.gameSchema, SCHEMA) ELSE input.gameSchema

\* what C11 asks of one node n and of the node m that stands for it in the
\* output
TypeNormalized(n, m) ==
    LET ty == Get(n, TYPE)
        nonNull == SelectSeq(ty.es, LAMBDA x : x # NULL_NAME)
    IN IF \E i \in 1..Len(ty.es) : ty.es[i] = NULL_NAME
       THEN /\ IsObj(m)
            /\ Get(m, TYPE) = (IF nonNull # <<>> THEN nonNull[1] ELSE STRING_NAME)
            /\ Get(m, NULLABLE) = JBool(TRUE)
       ELSE /\ IsObj(m)
            /\ ty.es # <<>> => Get(m, TYPE) = ty.es[1]
            /\ HasKey(m, NULLABLE) = HasKey(n, NULLABLE)

RECURSIVE EveryTypeNormalized(_, _)
\* TypeNormalized at every schema node of the tree n, under whichever
\* keyword, m being the output at the same place
EveryTypeNormalized(n, m) ==
    IF IsArr(n)
    THEN /\ IsArr(m) /\ Len(m.es) = Len(n.es)
         /\ \A i \in 1..Len(n.es) : EveryTypeNormalized(n.es[i], m.es[i])
    ELSE IF ~IsObj(n) THEN TRUE
    ELSE /\ IsArr(Get(n, TYPE)) => TypeNormalized(n, m)
         /\ \A i \in 1..Len(n.kv) :
               LET k == n.kv[i][1]
                   x == n.kv[i][2]
               IN /\ k \in {ITEMS, ANY_OF, ONE_OF, ALL_OF, NOT_KEY}
                        => EveryTypeNormalized(x, Get(m, k))
                  /\ (k \in {PROPERTIES, DEFS_KEY} /\ IsObj(x))
                        => \A j \in 1..Len(x.kv) :
                              EveryTypeNormalized(x.kv[j][2],
                                                  Get(Get(m, k), x.kv[j][1]))

\* C11 (as stated): every schema node whose type is an array containing
\* "null" comes out with the first non-null member (or "string") as its type
\* and nullable = true; a node whose type array holds no "null" comes out
\* with its first member as type and no nullable flag added.
C11_AsStated ==
    (output # Undefined /\ input.fn = "schema" /\ output.ok)
        => EveryTypeNormalized(ConvertedSchema, output.v)

\* C12 (as stated): convertSchemaForGoogle returns a value and throws no
\* error for every schema-like input, an absent schema and a keyword member
\* of unexpected shape included.
C12_AsStated ==
    (output # Undefined /\ input.fn = "schema") => output.ok

(***************************************************************************)
(* Further properties of the hooked fetch (specification Spec).            *)
(***************************************************************************)
\* the provider request the call builds from the settings it read at entry
\* and from nothing else
RequestFromSnapshot ==
    BuildRequest(settings, settings, finalPrompt,
                 IsAdvisor(isAction, gameSchema), gameSchema)

\* C13 (as stated): every provider request of a call, those of the retry
\* attempts included, is the one the settings read at entry determine,
\* whatever is stored while the call is suspended.
C13_AsStated ==
    \A i \in 1..Len(net) :
        net[i].to # "original" =>
            /\ RequestFromSnapshot.ok
            /\ net[i] = RequestFromSnapshot.v

\* the call is suspended at one of its waits
Suspended == pc \in {"provider", "backoff", "original"}

\* the hooked fetch returned: the synthesized response, or the promise of
\* the original fetch
CallReturned ==
    /\ pc = "done"
    /\ result # Undefined
    /\ result.kind \in {"synthesized", "original"}

Count(kinds) == Cardinality({i \in 1..Len(net) : net[i].to \in kinds})

\* at most 3 provider invocations and requests, at most one request to the
\* original destination, and nothing after it
WithinBudget ==
    /\ invoked <= 3
    /\ Count({"google", "openrouter", "copilot"}) <= 3
    /\ Count({"original"}) <= 1
    /\ \A i \in 1..Len(net) : net[i].to = "original" => i = Len(net)
    /\ pc = "original" => net # <<>> /\ net[Len(net)].to = "original"
    /\ pc = "done" => CallReturned

\* C14: when every request and every delay completes, every intercepted
\* call that is suspended eventually returns the synthesized response or the
\* result of the original fetch; it invokes the provider at most 3 times,
\* requests the original destination at most once, and invokes no provider
\* once the fallback has started.
C14_ReturnsWithinBudget ==
    /\ [](WithinBudget)
    /\ (Suspended /\ Intercepted(url)) ~> CallReturned

\* a call that used all three provider invocations, fell back and returned
\* the result of the original fetch
C14_Witness ==
    /\ Intercepted(url)
    /\ CallReturned
    /\ result.kind = "original"
    /\ invoked = 3
    /\ Count({"google", "openrouter", "copilot"}) = 3
    /\ Count({"original"}) = 1

(***************************************************************************)
(* Further properties of the reshaping (specification SpecReshape).        *)
(***************************************************************************)
\* the positions (from 1) of the first and of the last c in t
FirstAt(t, c) == CHOOSE i \in 1..Len(t) : t[i] = c /\ \A j \in 1..(i - 1) : t[j] # c
LastAt(t, c) == CHOOSE i \in 1..Len(t) : t[i] = c /\ \A j \in (i + 1)..Len(t) : t[j] # c
HasBothBraces(t) ==
    /\ \E i \in 1..Len(t) : t[i] = "{"
    /\ \E i \in 1..Len(t) : t[i] = "}"

\* C15 (as stated): in action mode, when the fence-stripped text holds a
\* "{" and a "}", the extracted text is the span from the first "{" to the
\* last "}", both included: it begins with "{" and ends with "}", wherever
\* the two stand in the text.
C15_AsStated ==
    (HasReshaped /\ input.isAction /\ HasBothBraces(output.stripped)) =>
        LET t == output.stripped
            f == FirstAt(t, "{")
            l == LastAt(t, "}")
            e == output.extracted
        IN /\ e # <<>>
           /\ e[1] = "{"
           /\ e[Len(e)] = "}"
           /\ e = [i \in 1..(l - f + 1) |-> t[f + i - 1]]

\* a {name, strict, schema} envelope whose schema is an object
IsEnvelope(v) ==
    /\ IsObj(v)
    /\ HasKey(v, NAME) /\ HasKey(v, STRICT) /\ HasKey(v, SCHEMA)
    /\ IsObj(Get(v, SCHEMA))

\* C16 (as stated): in action mode the extracted text is replaced by the
\* serialization of its schema member exactly when it parses as a
\* {name, strict, schema} envelope whose schema is an object; any other
\* parsed answer is left as it is by this step.
C16_AsStated ==
    (HasReshaped /\ input.isAction) =>
        LET p == Parse(output.extracted) IN
        IF p.ok /\ IsEnvelope(p.v)
        THEN output.cleanText = Stringify(Get(p.v, SCHEMA))
        ELSE output.cleanText = output.extracted

\* the text parses as a JSON object
ParsesAsObject(t) == LET p == Parse(t) IN p.ok /\ IsObj(p.v)

\* C19 (as stated): in action mode, when the text left by fence stripping
\* and brace extraction parses as a JSON object, the body parses as a JSON
\* object too: never null, a list or a scalar.
C19_AsStated ==
    (HasReshaped /\ input.isAction /\ ParsesAsObject(output.extracted)) =>
        /\ output.body.ok
        /\ ParsesAsObject(output.body.v)

(***************************************************************************)
(* Properties of the hooked fetch: mode and schema (specification Spec).   *)
(***************************************************************************)
\* the mode the payload of the call asks for: chat when the stage marker is
\* chatWithUser (a schema it may carry is ignored) or when there is neither
\* marker nor schema nor body; action when it carries a schema otherwise
AsksForAction ==
    /\ ~MissingBody
    /\ Get(GamePayload, PROMPT_STAGE) # CHAT_WITH_USER
    /\ Truthy(Get(GamePayload, JSON_SCHEMA))

ProviderCalled == \E i \in 1..Len(net) : net[i].to # "original"

\* the body is the message wrapper around the fence-stripped completion
MessageWrapper(body, text) ==
    /\ body = Stringify(JObj(<< <<MESSAGE, JStr(StripFences(text))>> >>))
    /\ LET p == Parse(body) IN
       /\ p.ok /\ IsObj(p.v) /\ Len(p.v.kv) = 1
       /\ p.v.kv[1][1] = MESSAGE /\ IsStr(p.v.kv[1][2])

\* the body is the cleaned completion itself, or the serialization of the
\* sole member of the value it parses to: no wrapper is put around it
RawText(body, text) ==
    LET clean == CleanText(TRUE, text)
        p == Parse(clean)
    IN \/ body = clean
       \/ /\ p.ok /\ p.v.t \in {"obj", "arr"} /\ KeyCount(p.v) = 1
          /\ body = Stringify(FirstMember(p.v))

ModeDecided ==
    /\ (Intercepted(url) /\ ProviderCalled) => isAction = AsksForAction
    /\ (result # Undefined /\ result.kind = "synthesized") =>
          IF isAction THEN RawText(result.body, responseText.s)
          ELSE MessageWrapper(result.body, responseText.s)

ModeKept == (pc # "idle" /\ pc' # "idle") => isAction' = isAction

\* C17: once the provider is called the mode of an intercepted call is the
\* one its payload asks for (chat for the stage marker chatWithUser, action
\* for a payload that carries a schema), it stays the same until the call
\* has returned, and the body of the synthesized response is the message
\* wrapper in chat mode and the raw text in action mode, whatever the
\* provider, the retries and the completion.
C17_ModeDecidesShape == [](ModeDecided) /\ [][ModeKept]_vars

\* an action call answered by openrouter on its second attempt with a
\* completion that looks like a chat wrapper
C17_Witness ==
    /\ pc = "done"
    /\ isAction
    /\ settings.provider = "openrouter"
    /\ invoked = 2
    /\ result.kind = "synthesized"
    /\ responseText = JStr(<<"{", QUOTE, "message", QUOTE, ":">>)

\* the request carries the schema as the provider's own structured-output
\* directive
NativeDirective(r) ==
    CASE r.to = "google" -> r.responseSchema # Undefined
      [] r.to = "openrouter" -> r.response_format # Undefined
      [] OTHER -> FALSE

\* the prompt of the request holds the serialized schema of the payload
SchemaInPrompt(r) == Includes(r.text, Stringify(Get(GamePayload, JSON_SCHEMA)))

\* C18 (as stated): every provider request of an action call, whichever of
\* the three providers it goes to, carries the game's schema as the native
\* structured-output directive or inside the prompt text.
C18_AsStated ==
    \A i \in 1..Len(net) :
        (net[i].to # "original" /\ isAction) =>
            (NativeDirective(net[i]) \/ SchemaInPrompt(net[i]))

====
